---- MODULE Spec2Model ----
(***************************************************************************)
(* Model of the asynchronous request layer (async effect, request          *)
(* registry, root async handler, channel adapter handler, cancel scopes).  *)
(*                                                                         *)
(* Memory is modelled explicitly: async_request_t objects live at the      *)
(* addresses 1..MaxReq, the sentinel (local->requests) at the address      *)
(* `requests`, and NULL is 0.  uv_req_t records are 1..NumStrands: the     *)
(* computation ("strand") k awaits on its own uv_req_t, number k, and its  *)
(* captured continuation (lh_resume) is also named k.  Strand k runs       *)
(* inside Depth(k) channel adapter handlers inside the root async handler. *)
(* Control is held by one strand at a time, or by the driving loop         *)
(* (running = NULL): the program is single threaded.                       *)
(***************************************************************************)
EXTENDS Integers, Sequences, FiniteSets, TLC

\* ---------------------------------------------------------------- bounds
NumStrands == 3
MaxReq == 3
MaxScope == 3
\* scope regions open at the same time, over all strands
MaxNest == 2

\* ------------------------------------------------------------- constants
NULL == 0

Strands == 1..NumStrands
UvReqs == 1..NumStrands
ReqAddrs == 1..MaxReq
\* address of the dummy head element local->requests
requests == MaxReq + 1
Addrs == ReqAddrs \cup {requests}
\* uv_loop_t handles the root handler may be installed with
Loops == {1, 2}
\* status codes a completion callback may carry (uverr)
Statuses == {-1, 0, 1}

VARIABLES
  hstate,    \* root handler: "active", "released" (local freed), "aborted"
  loop,      \* local->loop
  heap,      \* Addrs -> async_request_t
  live,      \* allocated async_request_t addresses
  data,      \* uvreq->data of every uv_req_t
  pc,        \* position of every strand
  req,       \* the local `req` of asyncx_await, per strand
  ret,       \* value delivered to the strand by its last resumption
  running,   \* the strand holding control, NULL = the driving loop
  cb,        \* the strategy call async_request_resume is about to make
  chan,      \* completions emitted into the channel and not yet received
  fault,     \* "none", or the assertion / undefined behaviour that was hit
  boot,      \* the bootstrap: start timer, exception report, uv_run / closed
  last,      \* history: the operation that produced this state
  pending,   \* history: requests begun and not yet completed, newest first
  nres,      \* history: strategy invocations per uv_req_t since its await
  sent,      \* history: status passed to the call that found the request
  sparent,   \* scope heap: cancel_scope_t.parent
  slive,     \* allocated cancel_scope_t addresses
  _cancel_scope, \* per strand: the bindings of the implicit parameter made
             \* inside the outer (null) binding, innermost last
  query      \* the last in_scope_of call and its result

vars == <<boot, hstate, loop, heap, live, data, pc, req, ret, running, cb,
          chan, fault, last, pending, nres, sent, sparent, slive,
          _cancel_scope, query>>

asyncVars == <<boot, hstate, loop, heap, live, data, pc, req, ret, running,
               cb, chan, fault, last, pending, nres, sent>>
asyncVars_but_last == <<boot, hstate, loop, heap, live, data, pc, req, ret, running,
                        cb, chan, fault, pending, nres, sent>>
scopeVars == <<sparent, slive, _cancel_scope, query>>

\* ------------------------------------------------------------ structures
\* nodec_zalloc(async_request_t): every field zero
ZeroReq ==
  [next |-> NULL, prev |-> NULL, resume |-> NULL, local |-> "null",
   scope |-> NULL, uvreq |-> NULL, resumefun |-> "NULL"]

NoCb == [resumefun |-> "none", resume |-> NULL, local |-> "null", uvreq |-> NULL, err |-> 0]

\* number of channel adapter handlers between strand k and the root handler
Depth(k) == k - 1

\* the handler-local value of the handler at nesting depth d
LocalOf(d) == IF d = 0 THEN "async_local" ELSE "channel_local"

\* the value of the implicit parameter under the bindings st: the innermost
\* binding, and the null of with_outer_cancel_scope when there is none
Ambient(st) == IF st = <<>> THEN NULL ELSE st[Len(st)]

\* cancel_scope(): the ambient cancel scope of the strand that is running
cancel_scope == IF running = NULL THEN NULL ELSE Ambient(_cancel_scope[running])

\* ------------------------------------------------------------ scopes
\* addresses of cancel_scope_t objects
Scopes == 1..MaxScope

\* the scope reached from s by n parent steps (NULL once the chain has ended)
RECURSIVE Up(_, _, _)
Up(p, s, n) == IF s = NULL \/ n = 0 THEN s ELSE Up(p, p[s], n - 1)

\* the scope heaps the program can build: a scope's parent is the scope that was
\* ambient when it was allocated, or null, so every parent chain ends in null
ScopeHeaps ==
  {p \in [Scopes -> Scopes \cup {NULL}] : \A s \in Scopes : Up(p, s, MaxScope) = NULL}

\* mutant of _cancel_scope_alloc: the new scope is made a root
CancelScopeAllocNoParent(p, s) == [p EXCEPT ![s] = NULL]

\* _cancel_scope_alloc: the scope allocated at s gets the ambient scope as parent
_cancel_scope_alloc(p, s) == [p EXCEPT ![s] = cancel_scope]

\* mutant of in_scope_of: a chain that has ended is in no scope
RECURSIVE InScopeOfEndIsOutside(_, _, _)
InScopeOfEndIsOutside(p, scope, top) ==
  IF scope = NULL THEN FALSE
  ELSE IF scope = top THEN TRUE
  ELSE InScopeOfEndIsOutside(p, p[scope], top)

\* mutant of in_scope_of: one step up the chain instead of the loop
InScopeOfOneStep(p, scope, top) ==
  IF scope # NULL /\ scope # top
    THEN p[scope] = top
    ELSE scope = top

\* in_scope_of(scope, top) over the scope heap p (cancel_scope_t.parent)
RECURSIVE in_scope_of(_, _, _)
in_scope_of(p, scope, top) ==
  IF scope # NULL /\ scope # top
    THEN in_scope_of(p, p[scope], top)
    ELSE scope = top

\* --------------------------------------------------- the root handler
\* _async_uv_loop: tail-resume with local->loop
_async_uv_loop == loop

\* mutant of _async_req_register: the old head is not linked back to req
RegisterNoLinkBack(h, r) ==
  LET n  == h[requests].next
      h1 == [h EXCEPT ![r].next = n]
      h3 == [h1 EXCEPT ![r].prev = requests]
  IN  [h3 EXCEPT ![requests].next = r]

\* _async_req_register: insert req in front of the list of local->requests
_async_req_register(h, r) ==
  LET n  == h[requests].next
      h1 == [h EXCEPT ![r].next = n]
      h2 == IF n # NULL THEN [h1 EXCEPT ![n].prev = r] ELSE h1
      h3 == [h2 EXCEPT ![r].prev = requests]
  IN  [h3 EXCEPT ![requests].next = r]

\* mutant of _async_req_await: no strategy is stored
AwaitLeavesStrategyNull(h, resume, local, r) ==
  [h EXCEPT ![r].local = local,
            ![r].resume = resume]

\* mutant of _async_req_await: the continuation is not stored
AwaitDropsContinuation(h, resume, local, r) ==
  [h EXCEPT ![r].local = local,
            ![r].resumefun = IF h[r].resumefun = "NULL"
                               THEN "async_resume_default" ELSE @]

\* mutant of _async_req_await: the default strategy is stored unconditionally
AwaitOverwritesStrategy(h, resume, local, r) ==
  [h EXCEPT ![r].local = local,
            ![r].resume = resume,
            ![r].resumefun = "async_resume_default"]

\* _async_req_await: store the continuation; default strategy unless one is set
_async_req_await(h, resume, local, r) ==
  [h EXCEPT ![r].local = local,
            ![r].resume = resume,
            ![r].resumefun = IF h[r].resumefun = "NULL"
                               THEN "async_resume_default" ELSE @]

\* ----------------------------------------------- the channel adapter
\* mutant of _channel_async_req_await: the adapter stores the default strategy
ChannelAwaitStoresDefault(h, resume, local, r) ==
  [h EXCEPT ![r].resume = resume,
            ![r].local = local,
            ![r].resumefun = IF h[r].resumefun = "NULL"
                               THEN "async_resume_default" ELSE @]

\* _channel_async_req_await: store the continuation; channel strategy unless one is set
_channel_async_req_await(h, resume, local, r) ==
  [h EXCEPT ![r].resume = resume,
            ![r].local = local,
            ![r].resumefun = IF h[r].resumefun = "NULL"
                               THEN "_channel_async_req_resume" ELSE @]

\* The effect operations as seen by a computation running inside d channel
\* adapters: an operation yields to the innermost handler; the adapter's
\* uv_loop and req_register operations call the operation again, which then
\* yields to the handler one level further out.
RECURSIVE async_uv_loop(_)
\* _channel_async_uv_loop at nesting depth d >= 1: async_loop() in the parent
_channel_async_uv_loop(d) == async_uv_loop(d - 1)
async_uv_loop(d) == IF d = 0 THEN _async_uv_loop ELSE _channel_async_uv_loop(d)

\* async_loop(): wrapper around the primitive operation
async_loop(d) == async_uv_loop(d)

RECURSIVE async_req_register(_, _, _)
\* mutant of _channel_async_req_register: the adapter keeps the registration to itself
ChannelRegisterSwallowed(d, h, r) == h

\* _channel_async_req_register at depth d >= 1: async_req_register in the parent
_channel_async_req_register(d, h, r) == async_req_register(d - 1, h, r)
async_req_register(d, h, r) ==
  IF d = 0 THEN _async_req_register(h, r) ELSE _channel_async_req_register(d, h, r)

\* the await operation, handled by the innermost handler of a computation at depth d
async_req_await(d, h, resume, r) ==
  IF d = 0 THEN _async_req_await(h, resume, LocalOf(0), r)
           ELSE _channel_async_req_await(h, resume, LocalOf(d), r)

\* ------------------------------------------------------ requests
\* mutant of NewRequest: the request does not point back at its uv_req_t
NewRequestNoBackRef(h, r, u) ==
  [h EXCEPT ![r] = [ZeroReq EXCEPT !.scope = cancel_scope]]

\* mutant of NewRequest: the scope field is left as zalloc made it
NewRequestNoScope(h, r, u) ==
  [h EXCEPT ![r] = [ZeroReq EXCEPT !.uvreq = u]]

\* async_request_alloc, up to the registration: a zeroed request bound to uvreq
NewRequest(h, r, u) ==
  [h EXCEPT ![r] = [ZeroReq EXCEPT !.uvreq = u, !.scope = cancel_scope]]

\* mutant of SetSlot: the request is not attached to the uv_req_t
SlotNotSet(d, u, r) == d

\* uvreq->data = req
SetSlot(d, u, r) == [d EXCEPT ![u] = r]

\* mutant of ClearSlot: the completion slot is left pointing at the request
ClearSlotSkipped(d, u) == d

\* uvreq->data = NULL ("resume at most once")
ClearSlot(d, u) == [d EXCEPT ![u] = NULL]

\* mutant of Unlink: the successor is not linked back to the predecessor
UnlinkNoLinkBack(h, r) ==
  LET prev == h[r].prev
      next == h[r].next
      h1   == [h EXCEPT ![prev].next = next]
  IN  IF prev # NULL
        THEN [h1 EXCEPT ![r].next = NULL, ![r].prev = NULL]
        ELSE h

\* mutant of Unlink: the predecessor's next is cleared instead of set to req->next
UnlinkTruncates(h, r) ==
  LET prev == h[r].prev
      next == h[r].next
      h1   == [h EXCEPT ![prev].next = NULL]
      h2   == IF next # NULL THEN [h1 EXCEPT ![next].prev = prev] ELSE h1
  IN  IF prev # NULL
        THEN [h2 EXCEPT ![r].next = NULL, ![r].prev = NULL]
        ELSE h

\* unregister req from the outstanding requests
Unlink(h, r) ==
  LET prev == h[r].prev
      next == h[r].next
      h1   == [h EXCEPT ![prev].next = next]
      h2   == IF next # NULL THEN [h1 EXCEPT ![next].prev = prev] ELSE h1
  IN  IF prev # NULL
        THEN [h2 EXCEPT ![r].next = NULL, ![r].prev = NULL]
        ELSE h

\* mutant of check_uv_err: every nonzero status throws
CheckUvErrNonzero(uverr) == uverr # 0

\* check_uv_err: TRUE when it throws
check_uv_err(uverr) == uverr < 0

\* the requests reached from the sentinel by next pointers, in order; a walk
\* longer than the heap (a cycle) is cut after MaxReq + 1 elements
RECURSIVE WalkFrom(_, _, _)
WalkFrom(h, a, fuel) ==
  IF a = NULL \/ fuel = 0 THEN <<>>
  ELSE <<a>> \o WalkFrom(h, h[a].next, fuel - 1)

Registry(h) == WalkFrom(h, h[requests].next, MaxReq + 1)

Range(s) == {s[i] : i \in DOMAIN s}

\* sequence s without its element x
Without(s, x) == SelectSeq(s, LAMBDA y : y # x)

\* position of x in the sequence s, 0 when it does not occur
IndexOf(s, x) ==
  IF x \in Range(s) THEN CHOOSE i \in DOMAIN s : s[i] = x ELSE 0

\* history values: the operation a step performed, its argument or result,
\* whether async_req_resume found a request, and the position that request had
\* in the list (for a catch: the number of scope regions the exception left);
\* steps of no interest leave NoOp
Last(op, arg, found) == [op |-> op, arg |-> arg, found |-> found, pos |-> 0]
NoOp == Last("", NULL, FALSE)

\* ------------------------------------------------------------ initial state
\* async_handler: a fresh local with the given loop and an empty list of
\* requests, installed around the action; the outer cancel scope is null
InitAsync ==
  /\ hstate = "active"
  /\ loop \in Loops
  /\ heap = [a \in Addrs |-> ZeroReq]
  /\ live = {}
  /\ data = [u \in UvReqs |-> NULL]
  /\ pc = [k \in Strands |-> "new"]
  /\ req = [k \in Strands |-> NULL]
  /\ ret = [k \in Strands |-> 0]
  /\ running = NULL
  /\ cb = NoCb
  /\ chan = <<>>
  /\ fault = "none"
  /\ boot = [timer |-> "started", exn |-> "none", phase |-> "uv_run"]
  /\ last = Last("async_handler", NULL, FALSE)
  /\ pending = <<>>
  /\ nres = [u \in UvReqs |-> 0]
  /\ sent = [u \in UvReqs |-> 0]

NoQuery == [scope |-> NULL, top |-> NULL, result |-> "none"]

Init ==
  /\ InitAsync
  /\ sparent = [s \in Scopes |-> NULL]
  /\ slive = {}
  /\ _cancel_scope = [k \in Strands |-> <<>>]
  /\ query = NoQuery

\* the strand that is the entry action run by the bootstrap (uv_main_action);
\* it runs directly under the root handler
Entry == 1

\* the program runs while the handler is installed, nothing has aborted and
\* uv_run has not returned
Alive == hstate = "active" /\ fault = "none" /\ boot.phase = "uv_run"

\* uv_main_cb, after async_handler: control is back in the timer callback for
\* the first time when strand k gives it up; uv_timer_stop(t_start)
uv_main_cb(k) ==
  IF k = Entry /\ boot.timer = "started"
    THEN [boot EXCEPT !.timer = "stopped"] ELSE boot

\* mutant of uv_main_try_action: the exception is dropped without a report
TryActionSilent(b, k) == b

\* uv_main_try_action, after lh_try: an exception that left the entry action
\* is printed and freed, and the function returns normally
uv_main_try_action(b, k) ==
  IF k = Entry THEN [b EXCEPT !.exn = "reported"] ELSE b

\* control is in the driving loop, outside every computation and callback
AtLoop == Alive /\ running = NULL /\ cb = NoCb

\* ------------------------------------------------------------ computations
\* the action of strand k starts running under its handlers
Start(k) ==
  /\ AtLoop
  /\ pc[k] = "new"
  /\ k = Entry \/ pc[Entry] # "new"
  /\ pc' = [pc EXCEPT ![k] = "run"]
  /\ running' = k
  /\ last' = NoOp
  /\ UNCHANGED <<boot, hstate, loop, heap, live, data, req, ret, cb, chan,
                 fault, pending, nres, sent, scopeVars>>

\* async_loop() called by strand k
AsyncLoop(k) ==
  /\ Alive /\ running = k /\ pc[k] = "run"
  /\ last' = Last("async_loop", async_loop(Depth(k)), FALSE)
  /\ UNCHANGED <<boot, hstate, loop, heap, live, data, pc, req, ret, running,
                 cb, chan, fault, pending, nres, sent, scopeVars>>

\* nodec_zalloc for the request of uv_req_t u: some free address, NULL when
\* none is free.  The model is symmetric in the addresses, so the allocator
\* is taken to prefer the address u and otherwise the lowest free one.
Malloc(u) ==
  LET free == ReqAddrs \ live IN
    IF u \in free THEN u
    ELSE IF free = {} THEN NULL
    ELSE CHOOSE r \in free : \A q \in free : r <= q

\* asyncx_await(uvreq), first statement: async_request_alloc(uvreq); r is the
\* address the allocator returns
AsyncRequestAlloc(k, r) ==
  /\ Alive /\ running = k /\ pc[k] = "run"
  /\ r # NULL
  /\ LET u == k IN
       /\ data' = SetSlot(data, u, r)
       /\ heap' = async_req_register(Depth(k), NewRequest(heap, r, u), r)
       /\ nres' = [nres EXCEPT ![u] = 0]
       /\ sent' = [sent EXCEPT ![u] = 0]
  /\ live' = live \cup {r}
  /\ req' = [req EXCEPT ![k] = r]
  /\ ret' = [ret EXCEPT ![k] = 0]
  /\ pc' = [pc EXCEPT ![k] = "allocated"]
  /\ pending' = <<r>> \o pending
  /\ last' = Last("async_request_alloc", r, FALSE)
  /\ UNCHANGED <<boot, hstate, loop, running, cb, chan, fault, scopeVars>>

\* mutant of AsyncReqAwait: the await operation tail-resumes its caller at once
AwaitResumesAtOnce(k) ==
  /\ Alive /\ running = k /\ pc[k] = "allocated"
  /\ heap' = async_req_await(Depth(k), heap, k, req[k])
  /\ pc' = [pc EXCEPT ![k] = "returned"]
  /\ last' = NoOp
  /\ UNCHANGED <<boot, hstate, loop, live, data, req, ret, running, cb, chan, fault,
                 pending, nres, sent, scopeVars>>

\* asyncx_await(uvreq), second statement: async_req_await(req) yields to the
\* innermost handler, which stores the continuation and exits to the loop
AsyncReqAwait(k) ==
  /\ Alive /\ running = k /\ pc[k] = "allocated"
  /\ LET r == req[k] IN
       IF r = NULL \/ heap[r].uvreq = NULL \/ data[heap[r].uvreq] # r
         THEN /\ fault' = "assert_await"
              /\ UNCHANGED <<heap, pc, running, boot>>
         ELSE /\ heap' = async_req_await(Depth(k), heap, k, r)
              /\ pc' = [pc EXCEPT ![k] = "suspended"]
              /\ running' = NULL
              /\ boot' = uv_main_cb(k)
              /\ fault' = fault
  /\ last' = Last("async_req_await", req[k], FALSE)
  /\ UNCHANGED <<hstate, loop, live, data, req, ret, cb, chan,
                 pending, nres, sent, scopeVars>>

\* asyncx_await returns the delivered status to its caller w: the application
\* ("asyncx_await"), or async_await, which passes it to check_uv_err
AwaitReturn(k, w) ==
  /\ Alive /\ running = k /\ pc[k] = "returned"
  /\ pc' = [pc EXCEPT ![k] =
              IF w = "async_await" /\ check_uv_err(ret[k])
                THEN "thrown" ELSE "run"]
  /\ ret' = [ret EXCEPT ![k] = 0]
  /\ req' = [req EXCEPT ![k] = NULL]
  /\ sent' = [sent EXCEPT ![k] = 0]
  /\ last' = Last(w, ret[k], FALSE)
  /\ UNCHANGED <<boot, hstate, loop, heap, live, data, running, cb,
                 chan, fault, pending, nres, scopeVars>>

\* nodec_alloc(cancel_scope_t): the lowest free address, NULL when none is free
ScopeAlloc ==
  LET free == Scopes \ slive IN
    IF free = {} THEN NULL ELSE CHOOSE s \in free : \A q \in free : s <= q

\* with_cancel_scope(), entry of the region: with_implicit_defer(nodec_freev,
\* _cancel_scope_alloc(), _cancel_scope) binds the implicit parameter to a
\* newly allocated scope for the extent of the region
WithCancelScope(k, s) ==
  /\ Alive /\ running = k /\ pc[k] = "run"
  /\ s # NULL
  /\ Cardinality(slive) < MaxNest
  /\ sparent' = _cancel_scope_alloc(sparent, s)
  /\ slive' = slive \cup {s}
  /\ _cancel_scope' = [_cancel_scope EXCEPT ![k] = Append(@, s)]
  /\ last' = Last("with_cancel_scope", s, FALSE)
  /\ UNCHANGED <<asyncVars_but_last, query>>

\* the regions of strand k inside its n-th are left: their bindings are removed
\* and the deferred nodec_freev frees their scopes
LeaveScopes(k, n) ==
  LET gone == {_cancel_scope[k][i] : i \in (n + 1)..Len(_cancel_scope[k])} IN
    /\ _cancel_scope' = [_cancel_scope EXCEPT ![k] = SubSeq(@, 1, n)]
    /\ slive' = slive \ gone
    /\ sparent' = [s \in Scopes |-> IF s \in gone THEN NULL ELSE sparent[s]]

\* with_cancel_scope(), normal exit of the innermost region
LeaveCancelScope(k) ==
  /\ Alive /\ running = k /\ pc[k] = "run"
  /\ _cancel_scope[k] # <<>>
  /\ LeaveScopes(k, Len(_cancel_scope[k]) - 1)
  /\ last' = Last("leave_cancel_scope", Ambient(_cancel_scope[k]), FALSE)
  /\ UNCHANGED <<asyncVars_but_last, query>>

\* the exception thrown by check_uv_err is caught inside the strand, by a
\* handler inside the n outermost of the strand's scope regions
Catch(k) ==
  /\ Alive /\ running = k /\ pc[k] = "thrown"
  /\ pc' = [pc EXCEPT ![k] = "run"]
  /\ \E n \in 0..Len(_cancel_scope[k]) :
       /\ LeaveScopes(k, n)
       /\ last' = [Last("catch", NULL, FALSE) EXCEPT !.pos = Len(_cancel_scope[k]) - n]
  /\ UNCHANGED <<boot, hstate, loop, heap, live, data, req, ret, running, cb,
                 chan, fault, pending, nres, sent, query>>

\* the exception leaves the strand's action; the one of the entry action
\* arrives at the lh_try of uv_main_try_action
Uncaught(k) ==
  /\ Alive /\ running = k /\ pc[k] = "thrown"
  /\ pc' = [pc EXCEPT ![k] = "failed"]
  /\ running' = NULL
  /\ LeaveScopes(k, 0)
  /\ boot' = uv_main_try_action(uv_main_cb(k), k)
  /\ last' = Last("uncaught", k, FALSE)
  /\ UNCHANGED <<hstate, loop, heap, live, data, req, ret, cb,
                 chan, fault, pending, nres, sent, query>>

\* the strand's action returns, from inside whatever regions it is in
Finish(k) ==
  /\ Alive /\ running = k /\ pc[k] = "run"
  /\ pc' = [pc EXCEPT ![k] = "done"]
  /\ running' = NULL
  /\ LeaveScopes(k, 0)
  /\ boot' = uv_main_cb(k)
  /\ last' = NoOp
  /\ UNCHANGED <<hstate, loop, heap, live, data, req, ret, cb,
                 chan, fault, pending, nres, sent, query>>

\* ------------------------------------------------------------ completion
\* lh_release_resume(resume, local, err): the continuation of strand k goes on
\* from its await with the result err; a continuation can be released once
lh_release_resume(k, e) ==
  IF pc[k] = "suspended"
    THEN /\ pc' = [pc EXCEPT ![k] = "returned"]
         /\ ret' = [ret EXCEPT ![k] = e]
         /\ running' = k
         /\ fault' = fault
    ELSE /\ fault' = "resume_released"
         /\ UNCHANGED <<pc, ret, running>>

\* mutant of async_request_resume: the strategy is called before the request
\* is unlinked and freed
ResumeBeforeUnlink(r, u, e) ==
  IF r \notin live
    THEN /\ fault' = "invalid_pointer"
         /\ UNCHANGED <<heap, live, data, cb, pending, sent>>
  ELSE IF heap[r].uvreq # NULL
    THEN /\ data' = ClearSlot(data, u)
         /\ heap' = [heap EXCEPT ![r].uvreq = NULL]
         /\ cb' = [resumefun |-> heap[r].resumefun, resume |-> heap[r].resume,
                   local |-> heap[r].local, uvreq |-> u, err |-> e]
         /\ pending' = Without(pending, r)
         /\ sent' = [sent EXCEPT ![u] = e]
         /\ UNCHANGED <<live, fault>>
    ELSE UNCHANGED <<heap, live, data, cb, pending, sent, fault>>

\* async_request_resume(req, uvreq, err), up to the call of the strategy; req
\* is dereferenced, which is undefined unless it points at an allocated request
async_request_resume(r, u, e) ==
  IF r \notin live
    THEN /\ fault' = "invalid_pointer"
         /\ UNCHANGED <<heap, live, data, cb, pending, sent>>
  ELSE IF ~(heap[r].uvreq = NULL \/ heap[r].uvreq = u)
    THEN /\ fault' = "assert_resume"
         /\ UNCHANGED <<heap, live, data, cb, pending, sent>>
  ELSE IF heap[r].uvreq # NULL
    THEN /\ data' = ClearSlot(data, u)
         /\ heap' = [Unlink([heap EXCEPT ![r].uvreq = NULL], r) EXCEPT ![r] = ZeroReq]
         /\ live' = live \ {r}
         /\ cb' = [resumefun |-> heap[r].resumefun, resume |-> heap[r].resume,
                   local |-> heap[r].local, uvreq |-> u, err |-> e]
         /\ pending' = Without(pending, r)
         /\ sent' = [sent EXCEPT ![u] = e]
         /\ fault' = fault
    ELSE UNCHANGED <<heap, live, data, cb, pending, sent, fault>>

\* the places async_req_resume(uvreq, ...) is called from: a completion
\* callback run by the driving loop, or the computation that awaited uvreq,
\* once it runs again
CalledFor(u) ==
  \/ AtLoop
  \/ Alive /\ cb = NoCb /\ running = u /\ pc[u] \in {"returned", "run"}

\* mutant of async_req_resume: the request is used without the null check
async_req_resume_unchecked(u, e) ==
  /\ CalledFor(u)
  /\ async_request_resume(data[u], u, e)
  /\ last' = Last("async_req_resume", u, data[u] # NULL)
  /\ UNCHANGED <<boot, hstate, loop, pc, req, ret, running, chan, nres, scopeVars>>

\* async_req_resume(uvreq, err): the entry point of the completion callbacks
async_req_resume(u, e) ==
  /\ CalledFor(u)
  /\ IF data[u] # NULL
       THEN /\ async_request_resume(data[u], u, e)
            /\ last' = [Last("async_req_resume", u, TRUE) EXCEPT
                          !.pos = IndexOf(Registry(heap), data[u])]
       ELSE /\ last' = Last("async_req_resume", u, FALSE)
            /\ UNCHANGED <<heap, live, data, cb, pending, sent, fault>>
  /\ UNCHANGED <<boot, hstate, loop, pc, req, ret, running, chan, nres, scopeVars>>

\* mutant of async_resume_default: the continuation is never resumed
DefaultResumeSkipped(resume, e) == UNCHANGED <<pc, ret, running, fault>>

\* mutant of async_resume_default: the continuation is resumed with a null result
DefaultResumeDropsStatus(resume, e) ==
  IF resume # NULL
    THEN lh_release_resume(resume, 0)
    ELSE UNCHANGED <<pc, ret, running, fault>>

\* async_resume_default(resume, local, req, err)
async_resume_default(resume, e) ==
  IF resume # NULL
    THEN lh_release_resume(resume, e)
    ELSE UNCHANGED <<pc, ret, running, fault>>

\* _channel_async_req_resume(resume, local, req, err): emit into the channel
_channel_async_req_resume(resume, u, e) ==
  chan' = Append(chan, [resume |-> resume, uvreq |-> u, err |-> e])

\* async_request_resume, last statement: (*resumefun)(resume, local, uvreq, err)
InvokeResume ==
  /\ Alive /\ cb # NoCb
  /\ cb' = NoCb
  /\ nres' = [nres EXCEPT ![cb.uvreq] = @ + 1]
  /\ IF cb.resumefun = "async_resume_default"
       THEN /\ async_resume_default(cb.resume, cb.err)
            /\ chan' = chan
     ELSE IF cb.resumefun = "_channel_async_req_resume"
       THEN /\ _channel_async_req_resume(cb.resume, cb.uvreq, cb.err)
            /\ UNCHANGED <<pc, ret, running, fault>>
       ELSE /\ fault' = "null_call"
            /\ UNCHANGED <<pc, ret, running, chan>>
  /\ last' = Last(cb.resumefun, cb.uvreq, TRUE)
  /\ UNCHANGED <<boot, hstate, loop, heap, live, data, req, pending,
                 sent, scopeVars>>

\* the consumer of the channel takes the oldest completion and resumes its awaiter
ChannelReceive ==
  /\ AtLoop
  /\ chan # <<>>
  /\ chan' = Tail(chan)
  /\ lh_release_resume(Head(chan).resume, Head(chan).err)
  /\ last' = Last("channel_receive", Head(chan).uvreq, TRUE)
  /\ UNCHANGED <<boot, hstate, loop, heap, live, data, req, cb, pending,
                 nres, sent, scopeVars>>

\* ------------------------------------------------------------ teardown
\* mutant of _async_release: local is freed without the assertion
ReleaseUnchecked ==
  /\ AtLoop
  /\ hstate' = "released"
  /\ last' = Last("_async_release", NULL, FALSE)
  /\ UNCHANGED <<boot, loop, heap, live, data, pc, req, ret, running, cb, chan,
                 fault, pending, nres, sent, scopeVars>>

\* _async_release(local): assert the list of requests is empty, free local
_async_release ==
  /\ AtLoop
  /\ hstate' = IF heap[requests].next = NULL THEN "released" ELSE "aborted"
  /\ last' = Last("_async_release", NULL, FALSE)
  /\ UNCHANGED <<boot, loop, heap, live, data, pc, req, ret, running, cb, chan,
                 fault, pending, nres, sent, scopeVars>>

\* async_main, after uv_run: the loop has no active timer or request left,
\* uv_run returns and the loop is closed
uv_loop_close ==
  /\ fault = "none" /\ hstate # "aborted" /\ boot.phase = "uv_run"
  /\ running = NULL /\ cb = NoCb
  /\ boot.timer = "stopped"
  /\ pending = <<>>
  /\ boot' = [boot EXCEPT !.phase = "closed"]
  /\ last' = Last("uv_loop_close", NULL, FALSE)
  /\ UNCHANGED <<hstate, loop, heap, live, data, pc, req, ret, running, cb, chan,
                 fault, pending, nres, sent, scopeVars>>

\* ------------------------------------------------------------ specification
Next ==
  \/ \E k \in Strands : Start(k)
  \/ \E k \in Strands : AsyncLoop(k)
  \/ \E k \in Strands : AsyncRequestAlloc(k, Malloc(k))
  \/ \E k \in Strands : AsyncReqAwait(k)
  \/ \E k \in Strands, w \in {"asyncx_await", "async_await"} : AwaitReturn(k, w)
  \/ \E k \in Strands : Catch(k)
  \/ \E k \in Strands : Uncaught(k)
  \/ \E k \in Strands : Finish(k)
  \/ \E u \in UvReqs, e \in Statuses : async_req_resume(u, e)
  \/ InvokeResume
  \/ ChannelReceive
  \/ _async_release
  \/ uv_loop_close

Spec == Init /\ [][Next]_vars

\* ------------------------------------- specification of complete runs
\* Runs in which the handler is not torn down while a computation is under
\* way, every computation keeps executing while it has control and returns in
\* the end, and the driving loop runs the completion callback of every
\* submitted uv_req_t and the channel consumer.

\* no computation is under way: none is running, suspended or inside an await
Quiescent == \A k \in Strands : pc[k] \in {"new", "done", "failed"}

\* the completion callback of the submitted uv_req_t u
Callback(u) == data[u] # NULL /\ \E e \in Statuses : async_req_resume(u, e)

NextLive ==
  \/ \E k \in Strands : Start(k)
  \/ \E k \in Strands : AsyncLoop(k)
  \/ \E k \in Strands : AsyncRequestAlloc(k, Malloc(k))
  \/ \E k \in Strands : AsyncReqAwait(k)
  \/ \E k \in Strands, w \in {"asyncx_await", "async_await"} : AwaitReturn(k, w)
  \/ \E k \in Strands : Catch(k)
  \/ \E k \in Strands : Uncaught(k)
  \/ \E k \in Strands : Finish(k)
  \/ \E u \in UvReqs, e \in Statuses : async_req_resume(u, e)
  \/ InvokeResume
  \/ ChannelReceive
  \/ Quiescent /\ _async_release
  \/ Quiescent /\ uv_loop_close

Fairness ==
  /\ \A k \in Strands :
        /\ WF_vars(AsyncReqAwait(k))
        /\ WF_vars(\E w \in {"asyncx_await", "async_await"} : AwaitReturn(k, w))
        /\ WF_vars(Catch(k) \/ Uncaught(k))
        /\ SF_vars(Finish(k))
  /\ \A u \in UvReqs : SF_vars(Callback(u))
  /\ WF_vars(InvokeResume)
  /\ SF_vars(ChannelReceive)

SpecLive == Init /\ [][NextLive]_vars /\ Fairness

\* ------------------------------- specification with nested scope regions
\* The program with the with_cancel_scope() regions in use: strands may enter
\* and leave cancel scope regions between their other steps.
NextScoped ==
  \/ Next
  \/ \E k \in Strands : WithCancelScope(k, ScopeAlloc)
  \/ \E k \in Strands : LeaveCancelScope(k)

SpecScoped == Init /\ [][NextScoped]_vars

\* ------------------------------- specification of the await operations
\* The await operations applied to requests in every state of the strategy
\* field: the strand k0 is inside asyncx_await, its request allocated and
\* registered, and the request's resumefun is null or already names a strategy.
Strategies == {"async_resume_default", "_channel_async_req_resume"}

InitAwait ==
  /\ hstate = "active"
  /\ loop \in Loops
  /\ sparent = [s \in Scopes |-> NULL]
  /\ slive = {}
  /\ _cancel_scope = [k \in Strands |-> <<>>]
  /\ query = NoQuery
  /\ cb = NoCb
  /\ chan = <<>>
  /\ fault = "none"
  /\ boot = [timer |-> "started", exn |-> "none", phase |-> "uv_run"]
  /\ ret = [k \in Strands |-> 0]
  /\ nres = [u \in UvReqs |-> 0]
  /\ sent = [u \in UvReqs |-> 0]
  /\ \E k0 \in Strands, f \in Strategies \cup {"NULL"} :
       LET r == k0 IN
         /\ running = k0
         /\ pc = [k \in Strands |-> IF k = k0 THEN "allocated" ELSE "new"]
         /\ req = [k \in Strands |-> IF k = k0 THEN r ELSE NULL]
         /\ live = {r}
         /\ data = SetSlot([u \in UvReqs |-> NULL], k0, r)
         /\ heap = [async_req_register(Depth(k0),
                       NewRequest([a \in Addrs |-> ZeroReq], r, k0), r)
                     EXCEPT ![r].resumefun = f]
         /\ pending = <<r>>
         /\ last = Last("async_request_alloc", r, FALSE)

SpecAwait == InitAwait /\ [][Next]_vars

\* --------------------------------------------- specification of the scopes
InitScope ==
  /\ InitAsync
  /\ sparent \in ScopeHeaps
  /\ slive = Scopes
  /\ _cancel_scope = [k \in Strands |-> <<>>]
  /\ query = NoQuery

\* a call in_scope_of(scope, top)
InScopeOf(scope, top) ==
  /\ query' = [scope |-> scope, top |-> top,
               result |-> IF in_scope_of(sparent, scope, top) THEN "true" ELSE "false"]
  /\ UNCHANGED <<asyncVars, sparent, slive, _cancel_scope>>

NextScope == \E scope \in Scopes \cup {NULL}, top \in Scopes \cup {NULL} : InScopeOf(scope, top)

SpecScope == InitScope /\ [][NextScope]_vars

\* ================================================================ claims

\* C1 (at-most-once resumption): however often async_req_resume is called on a
\* uv_req_t after one await, the resumption strategy is invoked with the
\* captured continuation at most once; it has been invoked exactly once as soon
\* as the first call has run (the request is gone from the slot and no strategy
\* call is outstanding for it), and not at all before; a later call finds the
\* slot empty, schedules no strategy call, and neither touches the freed request
\* nor resumes a continuation that was already released.
AtMostOnceResumption ==
  /\ \A u \in UvReqs :
       /\ nres[u] <= 1
       /\ (pc[u] = "suspended" /\ data[u] # NULL) => nres[u] = 0
       /\ (pc[u] = "suspended" /\ data[u] = NULL /\ cb.uvreq # u) => nres[u] = 1
       /\ pc[u] = "returned" => nres[u] = 1
  /\ (last.op = "async_req_resume" /\ ~last.found) => cb = NoCb
  /\ fault \notin {"invalid_pointer", "resume_released", "assert_resume"}

\* C1 witness: a second async_req_resume on a uv_req_t whose request was already resumed
SecondCallAfterResume ==
  \E u \in UvReqs :
    /\ last = Last("async_req_resume", u, FALSE)
    /\ nres[u] = 1
    /\ pc[u] = "suspended"

\* C2 (registry consistency): the walk along next from the sentinel visits
\* exactly the requests begun and not yet completed, each once, newest first;
\* every visited request r is allocated, r.prev.next = r, and r.next.prev = r
\* when r.next is not null.
RegistryConsistency ==
  LET w == Registry(heap) IN
    /\ w = pending
    /\ Cardinality(Range(w)) = Len(w)
    /\ Range(w) \subseteq live
    /\ \A i \in DOMAIN w :
         /\ heap[w[i]].prev # NULL
         /\ heap[heap[w[i]].prev].next = w[i]
         /\ heap[w[i]].next # NULL => heap[heap[w[i]].next].prev = w[i]

\* C2 witness: a completion has removed one of three pending requests
RegistryAfterRemoval ==
  /\ last.op = "async_req_resume" /\ last.found
  /\ Len(Registry(heap)) = 2

\* the fields of the requests other than r, and the completion slots other than u
OthersOf(h, r) == [a \in ReqAddrs \ {r} |->
                     [resume |-> h[a].resume, local |-> h[a].local, scope |-> h[a].scope,
                      uvreq |-> h[a].uvreq, resumefun |-> h[a].resumefun]]
SlotsBut(d, u) == [v \in UvReqs \ {u} |-> d[v]]

\* C3 (empty slot): a step that is async_req_resume on a uv_req_t whose data is
\* null changes nothing of the program: no strategy call is scheduled, no
\* continuation is resumed, the list of requests, every request and every slot
\* stay as they are, and no assertion or fault is raised.
EmptySlotIsNoOp ==
  [][(last'.op = "async_req_resume" /\ data[last'.arg] = NULL)
       => /\ UNCHANGED <<boot, hstate, loop, heap, live, data, pc, req, ret, running,
                         cb, chan, fault, pending, nres, sent>>
          /\ fault' = "none"]_vars

\* C3 witness: such a notification has arrived while other requests are pending
SpuriousNotification ==
  /\ last.op = "async_req_resume" /\ ~last.found
  /\ data[last.arg] = NULL
  /\ nres[last.arg] = 1
  /\ Len(Registry(heap)) >= 2

\* C4 (out-of-order completion): a step that is async_req_resume on a uv_req_t u
\* whose data is the request r removes exactly r from the list, keeping the
\* others in their order, schedules the strategy call with r's continuation,
\* and resumes nothing itself; the following strategy call resumes (or emits)
\* exactly that continuation; the other requests and slots are untouched.  When
\* no begun request is left uncompleted, the sentinel's next is null.
OutOfOrderCompletion ==
  [][
      /\ (last'.op = "async_req_resume" /\ data[last'.arg] # NULL) =>
          LET u == last'.arg
              r == data[u]
          IN  /\ r \in Range(Registry(heap))
              /\ Registry(heap') = Without(Registry(heap), r)
              /\ cb' = [resumefun |-> heap[r].resumefun, resume |-> heap[r].resume,
                        local |-> heap[r].local, uvreq |-> u, err |-> sent'[u]]
              /\ heap[r].resume = u
              /\ OthersOf(heap', r) = OthersOf(heap, r)
              /\ SlotsBut(data', u) = SlotsBut(data, u)
              /\ UNCHANGED <<pc, ret, running, chan>>
      /\ (cb # NoCb /\ cb' = NoCb) =>
          /\ \A k \in Strands \ {cb.resume} : pc'[k] = pc[k] /\ ret'[k] = ret[k]
          /\ \/ pc[cb.resume] = "suspended" /\ pc'[cb.resume] = "returned" /\ chan' = chan
             \/ pc'[cb.resume] = pc[cb.resume]
                  /\ chan' = Append(chan, [resume |-> cb.resume, uvreq |-> cb.uvreq, err |-> cb.err])
          /\ UNCHANGED <<heap, data, live>>
      /\ (pending' = <<>>) => heap'[requests].next = NULL
    ]_vars

\* C4 witness: the middle one of three pending requests has been completed
MiddleCompleted ==
  /\ last.op = "async_req_resume" /\ last.found /\ last.pos = 2
  /\ Len(Registry(heap)) = 2

\* C5 (teardown): _async_release frees the local exactly when the list of
\* requests is empty and aborts on its assertion otherwise; the handler is
\* never released while a begun request is uncompleted.
TeardownInvariant ==
  /\ last.op = "_async_release" =>
       /\ hstate \in {"released", "aborted"}
       /\ hstate = "released" <=> heap[requests].next = NULL
  /\ hstate # "active" => last.op \in {"_async_release", "uv_loop_close"}
  /\ hstate = "released" => pending = <<>>
  /\ (hstate = "aborted") => pending # <<>>

\* C5 witness: release was attempted with a request still registered
ReleaseWithPending ==
  /\ hstate = "aborted"
  /\ last.op = "_async_release"
  /\ pending # <<>>

\* the pointers met on the parent chain of scope s: s itself, its ancestors,
\* and the null that ends the chain (the outer scope of the bootstrap)
Chain(p, s) == {Up(p, s, n) : n \in 0..MaxScope}

\* C7 (scope containment): in_scope_of(scope, top) is true exactly when top is
\* scope itself or lies on the parent chain of scope, and false when the chain
\* ends without meeting top.
ScopeContainment ==
  query.result # "none" =>
    /\ query.result \in {"true", "false"}
    /\ query.result = "true" <=> query.top \in Chain(sparent, query.scope)

\* C7 witness: top was found two or more steps up the chain
FoundGrandparent ==
  /\ query.result = "true"
  /\ query.scope # NULL /\ query.top # NULL
  /\ query.top \notin {query.scope, sparent[query.scope]}

\* C8 (adapter pass-through): for a strand inside one or more channel adapters,
\* async_loop() yields the loop of the root handler's local, and the
\* registration done by async_request_alloc puts the request once, in front,
\* into the root handler's list: the heap is what _async_req_register of the
\* root handler makes of it.
AdapterPassThrough ==
  [][
      /\ (last'.op = "async_loop" /\ Depth(running') >= 1) =>
            /\ last'.arg = loop
            /\ last'.arg = async_uv_loop(0)
      /\ (last'.op = "async_request_alloc" /\ Depth(running') >= 1) =>
            LET r == last'.arg IN
              /\ Registry(heap') = <<r>> \o Registry(heap)
              /\ heap'[requests].next = r
              /\ heap' = async_req_register(0, NewRequest(heap, r, heap'[r].uvreq), r)
    ]_vars

\* C8 witness: a strand inside two adapters has registered a request in front of another
RegisteredThroughAdapters ==
  /\ last.op = "async_request_alloc"
  /\ running # NULL /\ Depth(running) >= 2
  /\ Len(Registry(heap)) >= 2
  /\ Registry(heap)[1] = last.arg

\* C9 (result delivery): when the default strategy runs for the uv_req_t u, the
\* continuation it resumes is the one captured by the await on u, the status
\* that awaiter receives is the status passed to the async_req_resume call that
\* found the request, and nobody else is resumed or handed a status.
ResultDelivery ==
  [][last'.op = "async_resume_default" =>
       LET u == last'.arg IN
         /\ cb.uvreq = u /\ cb.resume = u
         /\ pc[u] = "suspended" /\ pc'[u] = "returned"
         /\ running' = u
         /\ ret'[u] = sent[u]
         /\ \A j \in Strands \ {u} : pc'[j] = pc[j] /\ ret'[j] = ret[j]
    ]_vars

\* C9 witness: the awaiter under the root handler got -1 while others are pending
DeliveredNegative ==
  /\ last.op = "async_resume_default"
  /\ \E k \in Strands : Depth(k) = 0 /\ pc[k] = "returned" /\ ret[k] = -1 /\ sent[k] = -1
  /\ Len(Registry(heap)) = 2

\* C10 (negative status): completing with any status, negative included, raises
\* nothing: the strategy resumes the awaiter with that status; a failure is
\* thrown only when async_await hands the status to check_uv_err, and exactly
\* when the status is below zero; asyncx_await returns the status as it is.
NegativeStatusHandling ==
  [][
      /\ last'.op \in {"async_req_resume", "async_resume_default",
                       "_channel_async_req_resume", "channel_receive"} =>
            /\ fault' = "none"
            /\ \A k \in Strands : pc'[k] = "thrown" => pc[k] = "thrown"
      /\ (last'.op = "async_resume_default" /\ cb.err < 0) =>
            /\ pc'[cb.resume] = "returned"
            /\ ret'[cb.resume] = cb.err
      /\ \A k \in Strands : (pc'[k] = "thrown" /\ pc[k] # "thrown") =>
            /\ last'.op = "async_await"
            /\ pc[k] = "returned" /\ ret[k] < 0
      /\ last'.op = "async_await" =>
            /\ last'.arg = ret[running]
            /\ pc'[running] = "thrown" <=> ret[running] < 0
            /\ pc'[running] = "run" <=> ret[running] >= 0
      /\ last'.op = "asyncx_await" =>
            /\ last'.arg = ret[running]
            /\ pc'[running] = "run"
    ]_vars

\* C10 witness: async_await has thrown on the status -1
ThrownOnNegative ==
  /\ last = Last("async_await", -1, FALSE)
  /\ running # NULL /\ pc[running] = "thrown"

\* C11 (only await suspends): async_loop() and the registration made by
\* async_request_alloc hand control straight back to the calling strand: the
\* same strand holds control after the step and the driving loop never runs in
\* between.  The await operation never resumes its caller: the strand is
\* suspended and control is with the driving loop; a suspended strand goes on
\* only in a strategy call or channel delivery that follows an async_req_resume
\* which found the request of its own uv_req_t.
OnlyAwaitSuspends ==
  [][
      /\ last'.op \in {"async_loop", "async_request_alloc"} =>
            /\ running # NULL /\ running' = running
            /\ pc'[running] \in {"run", "allocated"}
            /\ cb' = NoCb
      /\ \A k \in Strands :
            /\ (pc[k] = "allocated" /\ pc'[k] # "allocated") =>
                  \/ pc'[k] = "suspended" /\ running = k /\ running' = NULL
                  \/ fault' # "none"
            /\ (pc[k] = "suspended" /\ pc'[k] # "suspended") =>
                  /\ pc'[k] = "returned" /\ running' = k
                  /\ last'.op \in {"async_resume_default", "channel_receive"}
                  /\ last'.arg = k
                  /\ data[k] = NULL /\ nres'[k] = 1
    ]_vars

\* C11 witness: a strand that queried the loop, registered and awaited is suspended
\* with the driving loop in control, after another strand ran to its end
AwaitSuspendedOthersRan ==
  /\ running = NULL /\ cb = NoCb
  /\ \E k \in Strands : pc[k] = "suspended" /\ data[k] # NULL /\ nres[k] = 0
  /\ \E k \in Strands : pc[k] = "done"
  /\ last.op = ""

\* C12 (ambient scope restoration): entering a scope region allocates a new
\* scope whose parent is the scope that was ambient, and makes it the ambient
\* scope of the entering strand; while the region lasts the strand's ambient
\* scope changes only by nested entries and exits, whatever other strands do;
\* leaving regions by normal exit, by return of the action, or by an exception
\* caught further out or not at all, makes the ambient scope again the one that
\* was ambient when the outermost region left was entered.
AmbientScopeRestoration ==
  /\ [](\A k \in Strands : \A i \in DOMAIN _cancel_scope[k] :
           /\ _cancel_scope[k][i] \in slive
           /\ sparent[_cancel_scope[k][i]] = Ambient(SubSeq(_cancel_scope[k], 1, i - 1)))
  /\ [][\A k \in Strands :
          LET st  == _cancel_scope[k]
              st2 == _cancel_scope'[k]
          IN  /\ Len(st2) > Len(st) =>
                   /\ running = k /\ running' = k
                   /\ st2 = Append(st, Ambient(st2))
                   /\ Ambient(st2) \notin slive
                   /\ sparent'[Ambient(st2)] = Ambient(st)
              /\ Len(st2) < Len(st) =>
                   /\ running = k
                   /\ st2 = SubSeq(st, 1, Len(st2))
                   /\ Ambient(st2) = sparent[st[Len(st2) + 1]]
                   /\ \A i \in (Len(st2) + 1)..Len(st) : st[i] \notin slive'
              /\ Len(st2) = Len(st) => st2 = st
      ]_vars

\* C12 witness: an exception caught in the outer of two nested regions has left
\* the inner one, and the outer region's scope is ambient again
InnerRegionLeftByException ==
  /\ last.op = "catch" /\ last.pos = 1
  /\ running # NULL
  /\ Len(_cancel_scope[running]) = 1
  /\ cancel_scope # NULL

\* C13 (bootstrap failure containment): when an exception leaves the entry
\* action, uv_main_try_action reports it and returns normally: nothing is
\* raised again, no strand gets an exception, control is back in the driving
\* loop; the start timer is stopped whether the entry action returned or
\* failed; the loop is closed only after the timer was stopped and every
\* request completed; and once the entry action is over, uv_run can return and
\* the loop be closed under the same conditions after a failure as after a
\* normal return.
BootstrapFailureContainment ==
  /\ [](/\ pc[Entry] = "failed" => boot.exn = "reported" /\ boot.timer = "stopped"
        /\ pc[Entry] = "done" => boot.exn = "none" /\ boot.timer = "stopped"
        /\ boot.exn = "reported" => pc[Entry] = "failed"
        /\ boot.phase = "closed" => boot.timer = "stopped" /\ pending = <<>>
        /\ (/\ pc[Entry] \in {"failed", "done"}
            /\ fault = "none" /\ hstate # "aborted" /\ boot.phase = "uv_run"
            /\ running = NULL /\ cb = NoCb /\ pending = <<>>) => ENABLED uv_loop_close)
  /\ [][(pc[Entry] = "thrown" /\ pc'[Entry] # "thrown" /\ last'.op = "uncaught") =>
          /\ pc'[Entry] = "failed"
          /\ boot'.exn = "reported"
          /\ fault' = "none" /\ hstate' = hstate
          /\ running' = NULL /\ cb' = NoCb
          /\ \A k \in Strands \ {Entry} : pc'[k] = pc[k]
      ]_vars

\* C13 witness: the entry action failed after an await, the exception was
\* reported, and the run went on to close the loop
ClosedAfterFailure ==
  /\ pc[Entry] = "failed"
  /\ boot = [timer |-> "stopped", exn |-> "reported", phase |-> "closed"]
  /\ last.op = "uv_loop_close"
  /\ \E k \in Strands \ {Entry} : pc[k] = "done"

\* no completion slot, list pointer or list position refers to the request at a
Unreferenced(h, d, a) ==
  /\ \A v \in UvReqs : d[v] # a
  /\ \A b \in Addrs : h[b].next # a /\ h[b].prev # a
  /\ a \notin Range(Registry(h))

\* C14 (completion step ordering): the async_req_resume step that finds a
\* request clears the slot, unlinks and frees the request and only schedules the
\* strategy call: no continuation has moved yet.  When the strategy is called,
\* and when the continuation starts running, the slot of its uv_req_t is null,
\* its request is freed, and no slot, neighbour pointer or list position refers
\* to it (nor to any freed request).  async_req_resume called again on the same
\* uv_req_t by the resumed continuation finds nothing and changes nothing.
CompletionStepOrdering ==
  /\ [](/\ \A a \in ReqAddrs \ live : Unreferenced(heap, data, a)
        /\ cb # NoCb => data[cb.uvreq] = NULL /\ pc[cb.resume] = "suspended"
        /\ \A k \in Strands : pc[k] = "returned" =>
              /\ data[k] = NULL
              /\ req[k] \notin live /\ Unreferenced(heap, data, req[k])
              /\ \A a \in live : heap[a].uvreq # k)
  /\ [][
        /\ (last'.op = "async_req_resume" /\ data[last'.arg] # NULL) =>
              LET u == last'.arg
                  r == data[u]
              IN  /\ data'[u] = NULL
                  /\ r \notin live' /\ Unreferenced(heap', data', r)
                  /\ cb = NoCb /\ cb' # NoCb /\ cb'.uvreq = u
                  /\ pc' = pc /\ running' = running /\ chan' = chan /\ nres' = nres
        /\ (last'.op = "async_req_resume" /\ running # NULL) =>
              /\ ~last'.found
              /\ UNCHANGED <<boot, hstate, loop, heap, live, data, pc, req, ret, running,
                             cb, chan, fault, pending, nres, sent>>
      ]_vars

\* C14 witness: the continuation resumed for a uv_req_t has called
\* async_req_resume on it again, with other requests still pending
ReentrantCallFoundNothing ==
  /\ last.op = "async_req_resume" /\ ~last.found
  /\ running = last.arg /\ pc[running] = "returned"
  /\ nres[running] = 1
  /\ Len(Registry(heap)) = 2

\* C15 (beginAwait ordering): between async_request_alloc and the await
\* operation of asyncx_await the request is attached to its uv_req_t both ways
\* and is the head of the root handler's list, and nothing else has run; so the
\* three assertions of the await operation (req, req->uvreq, req->uvreq->data
\* == req) hold at every await and the strand is suspended.
BeginAwaitOrdering ==
  /\ [](/\ fault # "assert_await"
        /\ \A k \in Strands : pc[k] = "allocated" =>
              /\ running = k
              /\ req[k] # NULL /\ req[k] \in live
              /\ heap[req[k]].uvreq = k
              /\ data[k] = req[k]
              /\ heap[requests].next = req[k] /\ heap[req[k]].prev = requests
              /\ heap[req[k]].resume = NULL)
  /\ [][last'.op = "async_req_await" =>
          LET k == running
              r == last'.arg
          IN  /\ r = req[k] /\ r # NULL
              /\ heap[r].uvreq # NULL
              /\ data[heap[r].uvreq] = r
              /\ Registry(heap)[1] = r
              /\ fault' = "none"
              /\ pc'[k] = "suspended"
              /\ heap'[r].resume = k
      ]_vars

\* C15 witness: an await was reached with two older requests behind the new head
AwaitAtHeadOfThree ==
  /\ last.op = "async_req_await"
  /\ Len(Registry(heap)) = 3
  /\ Registry(heap)[1] = last.arg
  /\ pc[heap[last.arg].uvreq] = "suspended"

\* the strategy the await operation of the innermost handler at depth d attaches
OwnStrategy(d) == IF d = 0 THEN "async_resume_default" ELSE "_channel_async_req_resume"

\* C16 (strategy set once): the await operation of the root handler and of the
\* channel adapter stores its own strategy in a request whose resumefun is
\* null and leaves a resumefun that is already set as it is; no step changes a
\* strategy once it is attached; and the strategy called at completion is the
\* one the request carries, that is the one attached first.
StrategySetOnce ==
  [][
      /\ last'.op = "async_req_await" =>
            LET r == last'.arg IN
              /\ heap[r].resumefun = "NULL" => heap'[r].resumefun = OwnStrategy(Depth(running))
              /\ heap[r].resumefun # "NULL" => heap'[r].resumefun = heap[r].resumefun
      /\ \A r \in live \cap live' :
            heap[r].resumefun # "NULL" => heap'[r].resumefun = heap[r].resumefun
      /\ (last'.op = "async_req_resume" /\ data[last'.arg] # NULL) =>
            cb'.resumefun = heap[data[last'.arg]].resumefun
      /\ (cb # NoCb /\ cb' = NoCb) => last'.op = cb.resumefun
    ]_vars

\* C16 witness: a request awaited under the root handler carried the channel
\* strategy before the await, and that strategy was the one called at completion
PresetStrategyKept ==
  /\ last.op = "_channel_async_req_resume"
  /\ Depth(last.arg) = 0
  /\ chan # <<>> /\ chan[Len(chan)].uvreq = last.arg
  /\ pc[last.arg] = "suspended"

\* C17 (adapter rerouting): when async_req_resume finds the request of a strand
\* that awaited inside a channel adapter, the strategy call it schedules is
\* _channel_async_req_resume with the strand's continuation, the adapter's
\* local, the uv_req_t and the status; that call emits into the channel and
\* resumes nobody.  For a strand directly under the root handler the call is
\* async_resume_default with the root handler's local, and it resumes the
\* strand.  Either way the request is unlinked from the root handler's list by
\* the same step, in the same way.
AdapterRerouting ==
  [][
      /\ (last'.op = "async_req_resume" /\ data[last'.arg] # NULL) =>
            LET u == last'.arg
                r == data[u]
            IN  /\ cb' = [resumefun |-> OwnStrategy(Depth(u)), resume |-> u,
                          local |-> LocalOf(Depth(u)), uvreq |-> u, err |-> sent'[u]]
                /\ heap' = [Unlink([heap EXCEPT ![r].uvreq = NULL], r) EXCEPT ![r] = ZeroReq]
                /\ Registry(heap') = Without(Registry(heap), r)
      /\ (cb # NoCb /\ cb' = NoCb /\ Depth(cb.uvreq) >= 1) =>
            /\ last'.op = "_channel_async_req_resume"
            /\ chan' = Append(chan, [resume |-> cb.resume, uvreq |-> cb.uvreq, err |-> cb.err])
            /\ pc' = pc /\ ret' = ret /\ running' = NULL
      /\ (cb # NoCb /\ cb' = NoCb /\ Depth(cb.uvreq) = 0) =>
            /\ last'.op = "async_resume_default"
            /\ chan' = chan
            /\ pc'[cb.resume] = "returned" /\ running' = cb.resume
    ]_vars

\* C17 witness: the completion of a request awaited inside two adapters went to
\* the channel with its status while the awaiter stays suspended
ReroutedToChannel ==
  /\ last.op = "_channel_async_req_resume"
  /\ Depth(last.arg) = 2
  /\ chan # <<>>
  /\ chan[Len(chan)] = [resume |-> last.arg, uvreq |-> last.arg, err |-> -1]
  /\ pc[last.arg] = "suspended" /\ running = NULL
  /\ Len(Registry(heap)) >= 1

\* C18 (unlink at every position): every request in the list has a non-null
\* prev, the sentinel or another request.  The step that removes the request r
\* sets the next of r's predecessor to r's successor and, when there is a
\* successor, the successor's prev to the predecessor; nothing else of the
\* predecessor, the successor or any other request changes, and when r is the
\* tail only the predecessor changes; r's own next and prev are null once it
\* is unlinked.  The sentinel is never the request removed and its prev is
\* always null.
UnlinkCorrectness ==
  /\ [](/\ heap[requests].prev = NULL
        /\ \A r \in Range(Registry(heap)) :
              /\ r # requests
              /\ heap[r].prev # NULL
              /\ heap[r].prev \in Range(Registry(heap)) \cup {requests})
  /\ [][(last'.op = "async_req_resume" /\ data[last'.arg] # NULL) =>
          LET r == data[last'.arg]
              p == heap[r].prev
              n == heap[r].next
              unlinked == Unlink([heap EXCEPT ![r].uvreq = NULL], r)
          IN  /\ r # requests /\ p # NULL /\ p # r /\ n # r
              /\ heap'[p] = [heap[p] EXCEPT !.next = n]
              /\ n # NULL => heap'[n] = [heap[n] EXCEPT !.prev = p]
              /\ \A a \in Addrs \ {r, p, n} : heap'[a] = heap[a]
              /\ unlinked[r].next = NULL /\ unlinked[r].prev = NULL
              /\ heap'[r].next = NULL /\ heap'[r].prev = NULL
              /\ \A a \in Addrs \ {r} : heap'[a] = unlinked[a]
              /\ heap'[requests].prev = NULL
      ]_vars

\* C18 witness: the tail of a list of three requests was removed: its
\* predecessor is the new tail
TailRemoved ==
  /\ last.op = "async_req_resume" /\ last.found /\ last.pos = 3
  /\ Len(Registry(heap)) = 2
  /\ heap[Registry(heap)[2]].next = NULL
  /\ heap[Registry(heap)[2]].prev = Registry(heap)[1]

\* C19 as stated (every linked request holds a continuation in every reachable
\* state): every request in the root handler's list has a non-null resume.
EveryLinkedRequestHasContinuation ==
  \A r \in Range(Registry(heap)) : heap[r].resume # NULL

\* C19 amended (linked requests hold a continuation once awaited): every
\* request in the list holds the captured, not yet resumed continuation of a
\* suspended strand, except the request of an asyncx_await that is between
\* async_request_alloc and the await operation, whose resume is still null;
\* whenever control is in the driving loop every linked request holds one.
LinkedRequestsHoldContinuationOnceAwaited ==
  /\ \A r \in Range(Registry(heap)) :
        \/ /\ heap[r].resume # NULL
           /\ pc[heap[r].resume] = "suspended"
           /\ heap[r].uvreq = heap[r].resume
           /\ nres[heap[r].uvreq] = 0
        \/ /\ heap[r].resume = NULL
           /\ running # NULL /\ pc[running] = "allocated" /\ req[running] = r
  /\ running = NULL => EveryLinkedRequestHasContinuation

\* C19 witness: three awaited requests are linked while the driving loop has control
ThreeAwaitedAtLoop ==
  /\ running = NULL /\ cb = NoCb
  /\ Len(Registry(heap)) = 3
  /\ \A r \in Range(Registry(heap)) : heap[r].resume # NULL
  /\ last.op = "async_req_await"

\* C20 (owning scope): async_request_alloc stores in the request the scope that
\* is ambient for the allocating strand at that moment; no later step changes
\* the scope of a request that stays allocated: not the registration, the
\* await operation of the root handler or of an adapter, scope entries and
\* exits, or the completion of other requests.
OwningScopeFixed ==
  /\ [](\A r \in live : heap[r].uvreq # NULL =>
           heap[r].scope = Ambient(_cancel_scope[heap[r].uvreq]))
  /\ [][
        /\ last'.op = "async_request_alloc" =>
              /\ heap'[last'.arg].scope = Ambient(_cancel_scope[running])
              /\ heap'[last'.arg].scope = cancel_scope
        /\ \A r \in live \cap live' : heap'[r].scope = heap[r].scope
      ]_vars

\* C20 witness: a request allocated inside a scope region keeps that scope
\* while its strand is suspended and another strand has entered and left a region
ScopeKeptAcrossOtherRegions ==
  /\ last.op = "leave_cancel_scope"
  /\ \E r \in live :
        /\ heap[r].scope # NULL
        /\ heap[r].scope \in slive
        /\ heap[r].uvreq # running
        /\ pc[heap[r].uvreq] = "suspended"
        /\ heap[r].resume # NULL

StrategyPresentAtCompletion ==
  /\ [](/\ fault # "null_call"
        /\ cb # NoCb => cb.resumefun \in Strategies
        /\ \A r \in Range(Registry(heap)) : heap[r].resumefun = "NULL" =>
              /\ running # NULL /\ pc[running] = "allocated" /\ req[running] = r
              /\ ~AtLoop
        /\ AtLoop => \A u \in UvReqs : data[u] # NULL =>
                        heap[data[u]].resumefun \in Strategies)
  /\ [][(last'.op = "async_req_resume" /\ data[last'.arg] # NULL) =>
          /\ heap[data[last'.arg]].resumefun \in Strategies
          /\ cb'.resumefun = heap[data[last'.arg]].resumefun
      ]_vars

\* C23 witness: the callback of a uv_req_t awaited inside an adapter found its
\* request, which carries the channel strategy, while one strand has just
\* awaited and another request is linked
FoundWithChannelStrategy ==
  /\ last.op = "async_req_resume" /\ last.found
  /\ cb.resumefun = "_channel_async_req_resume"
  /\ cb.uvreq = last.arg
  /\ Len(Registry(heap)) = 2
  /\ \E r \in Range(Registry(heap)) : heap[r].resumefun = "async_resume_default"

\* C24 (the root scope contains everything): the outer cancel scope bound by
\* the bootstrap is null: a strand outside every region has the null ambient
\* scope and its requests get the null scope; in_scope_of(s, NULL) is true for
\* null and for every allocated scope s, and so for the scope of every
\* allocated request, at whatever depth of nested regions it was created.
RootScopeContainsAll ==
  /\ \A k \in Strands : _cancel_scope[k] = <<>> => Ambient(_cancel_scope[k]) = NULL
  /\ in_scope_of(sparent, NULL, NULL)
  /\ \A s \in slive : in_scope_of(sparent, s, NULL)
  /\ \A r \in live :
        /\ heap[r].scope \in slive \cup {NULL}
        /\ in_scope_of(sparent, heap[r].scope, NULL)
        /\ (heap[r].uvreq # NULL /\ _cancel_scope[heap[r].uvreq] = <<>>) => heap[r].scope = NULL

\* C24 witness: a request created inside two nested regions is pending, next to
\* one created outside every region
RequestsAtDepthTwoAndZero ==
  /\ \E r \in live :
        /\ heap[r].scope # NULL /\ sparent[heap[r].scope] # NULL
        /\ pc[heap[r].uvreq] = "suspended"
  /\ \E r \in live : heap[r].scope = NULL /\ pc[heap[r].uvreq] = "suspended"
  /\ running = NULL

====
